---- MODULE Spec2Model ----
(***************************************************************************)
(* peruse: BrowserAgent (src/peruse/agent.py).  A natural-language command *)
(* is turned into browser actions by asking a completion client for one    *)
(* action at a time.  The model follows the coroutine BrowserAgent.execute *)
(* from one await to the next, together with setup(), close() and the five *)
(* tools of the agent.                                                     *)
(*                                                                         *)
(* Text is a sequence of pieces (strings).  A reply of the completion      *)
(* client is a sequence of lexical tokens: braces, commas, other single    *)
(* characters, and the JSON members "k": "v" and "k": <value>.             *)
(***************************************************************************)
EXTENDS Integers, Sequences, FiniteSets, TLC

\* ------------------------------------------------------------------ bounds
\* execute() frames (top-level calls and recursive calls) in one run
MaxSteps == 2
\* length of the generated replies over the characters { } x
MaxBraceLen == 2
\* candidates of a selector list that the pages of a run can match
MaxCandidate == 3
\* tool methods a caller invokes directly, one after the other
MaxCalls == 1

\* ------------------------------------------------------------------ tokens
Tok(t, k, v) == [t |-> t, k |-> k, v |-> v]
LB == Tok("lbrace", "", <<>>)
RB == Tok("rbrace", "", <<>>)
COMMA == Tok("comma", "", <<>>)
Ch(c) == Tok("ch", "", <<c>>)
\* the member  "k": "v"  (a string value)
P(k, v) == Tok("pair", k, v)
\* the member key  "k":  , to be followed by an object
K(k) == Tok("key", k, <<>>)
X == Ch("x")

\* ------------------------------------------------------- str.find / rfind
RECURSIVE FindFrom(_, _, _)
FindFrom(text, t, i) ==
    IF i > Len(text) THEN -1
    ELSE IF text[i].t = t THEN i - 1
    ELSE FindFrom(text, t, i + 1)

\* response_text.find('{'): index (from 0) of the first '{', or -1
Find(text, t) == FindFrom(text, t, 1)

RECURSIVE RFindFrom(_, _, _)
RFindFrom(text, t, i) ==
    IF i < 1 THEN -1
    ELSE IF text[i].t = t THEN i - 1
    ELSE RFindFrom(text, t, i - 1)

\* response_text.rfind('}'): index (from 0) of the last '}', or -1
RFind(text, t) == RFindFrom(text, t, Len(text))

\* text[a:b] for 0 <= a < b <= len(text)
Slice(text, a, b) == SubSeq(text, a + 1, b)

\* ------------------------------------------------------------- json.loads
\* A JSON object is a function from its keys to values; a value is a
\* string (ty = "str") or an object (ty = "obj").
EmptyDict == [k \in {} |-> 0]
StrVal(s) == [ty |-> "str", s |-> s, o |-> EmptyDict]
ObjVal(o) == [ty |-> "obj", s |-> <<>>, o |-> o]
Put(d, k, v) == [y \in (DOMAIN d) \cup {k} |-> IF y = k THEN v ELSE d[y]]
ParseFail == [ok |-> FALSE, val |-> EmptyDict, rest |-> <<>>]
ParseOk(d, rest) == [ok |-> TRUE, val |-> d, rest |-> rest]

RECURSIVE ParseObj(_), ParseMembers(_, _), ParseAfter(_, _)
\* object := '{' '}' | '{' members '}'
ParseObj(toks) ==
    IF toks = <<>> \/ Head(toks).t # "lbrace" THEN ParseFail
    ELSE IF Len(toks) >= 2 /\ toks[2].t = "rbrace"
         THEN ParseOk(EmptyDict, Tail(Tail(toks)))
    ELSE ParseMembers(Tail(toks), EmptyDict)

\* members := member | member ',' members ; a repeated key keeps the last
ParseMembers(toks, acc) ==
    IF toks = <<>> THEN ParseFail
    ELSE IF Head(toks).t = "pair"
         THEN ParseAfter(Tail(toks), Put(acc, Head(toks).k, StrVal(Head(toks).v)))
    ELSE IF Head(toks).t = "key"
         THEN LET r == ParseObj(Tail(toks))
              IN IF r.ok THEN ParseAfter(r.rest, Put(acc, Head(toks).k, ObjVal(r.val)))
                 ELSE ParseFail
    ELSE ParseFail

ParseAfter(toks, acc) ==
    IF toks = <<>> THEN ParseFail
    ELSE IF Head(toks).t = "rbrace" THEN ParseOk(acc, Tail(toks))
    ELSE IF Head(toks).t = "comma" THEN ParseMembers(Tail(toks), acc)
    ELSE ParseFail

\* json.loads(json_str): the whole string must be one value ("Extra data"
\* is a JSONDecodeError)
Loads(toks) ==
    LET r == ParseObj(toks)
    IN IF r.ok /\ r.rest = <<>> THEN [ok |-> TRUE, val |-> r.val]
       ELSE [ok |-> FALSE, val |-> EmptyDict]

\* ------------------------------------------------------------------ errors
Err(type, msg) == [type |-> type, msg |-> <<msg>>]
NoErr == Err("", "")
ErrNotInitialized == Err("RuntimeError", "Agent not initialized. Call setup() first.")
ErrNoJson == Err("ValueError", "No JSON object found in response")
ErrInvalidJson == Err("ValueError", "Invalid JSON response from LLM")
ErrInvalidFormat == Err("ValueError", "Invalid action format")
ErrUnknownTool == Err("ValueError", "Unknown tool")
ErrKwargs == Err("TypeError", "argument after ** must be a mapping / unexpected keyword argument")
ErrProvider == Err("APIError", "completion request failed")
ErrTimeout == Err("TimeoutError", "Timeout exceeded")
ErrTargetClosed == Err("TargetClosedError", "Target page, context or browser has been closed")

\* ------------------------------------------------------------ vocabulary
N(s) == <<s>>
\* self.tools (the names the agent dispatches on)
tools == {N("navigate"), N("click"), N("type"), N("get_text"), N("find_element")}

\* the keyword parameters of each tool method
Params(tool) ==
    CASE tool = N("navigate") -> {"url"}
      [] tool = N("click") -> {"selector"}
      [] tool = N("type") -> {"selector", "text"}
      [] tool = N("get_text") -> {"selector"}
      [] tool = N("find_element") -> {"description"}
      [] OTHER -> {}

\* LLMConfig.provider
Providers == {"openai", "anthropic", "ollama"}
\* the configurations of a run: the provider of the example program and the
\* one its comment proposes
ConfiguredProviders == {"anthropic", "ollama"}

\* attach attempts of setup()
max_retries == 3
\* seconds between two attach attempts
retry_delay == 5

Commands == {N("Go to example.org")}

SYSTEM_PROMPT == N("You are a browser automation expert. ...")

\* ------------------------------------------------------------------- pages
Page(id, url, closed) == [id |-> id, url |-> url, closed |-> closed]
NoPage == Page(0, <<>>, TRUE)
AboutBlank == N("about:blank")
StartURL == <<"https://", "start.page", "/">>
ResultsURL == <<"https://", "example.org", "/results">>
LandingURL == <<"https://", "google.com", "/">>
SearchURL == <<"https://", "google.com", "/search">>

\* url.startswith(('http://', 'https://'))
HasScheme(url) == Len(url) > 0 /\ url[1] \in {"http://", "https://"}

\* a normalisation that prepends the scheme whatever the URL starts with
NormalizeAlways(url) == <<"https://">> \o url

\* navigate's scheme normalisation
Normalize(url) == IF HasScheme(url) THEN url ELSE <<"https://">> \o url

\* page.url after a committed navigation to url: the URL itself (the
\* browser adds the path "/") or nothing loaded
Landed(u) == {u \o N("/"), AboutBlank, <<>>}

\* ------------------------------------------------------------------- tools
\* What a tool call can come to: a result or an error, the active page and
\* the action history it leaves.
Ok(result, page, hist) ==
    [ok |-> TRUE, result |-> result, err |-> NoErr, page |-> page, hist |-> hist]
\* a failing call that leaves an empty action history behind
FailDropsHistory(err, page, hist) ==
    [ok |-> FALSE, result |-> <<>>, err |-> err, page |-> page, hist |-> <<>>]
Fail(err, page, hist) ==
    [ok |-> FALSE, result |-> <<>>, err |-> err, page |-> page, hist |-> hist]

\* one operation on a page or the context, as the tool asks for it
Ev(op, pid, arg) == [op |-> op, page |-> pid, arg |-> arg]

\* an outcome with the operations the call made and what the browser did
Did(o, ev, env) ==
    [ok |-> o.ok, result |-> o.result, err |-> o.err, page |-> o.page, hist |-> o.hist,
     ev |-> ev, env |-> env]

ErrBlank == Err("Exception", "Navigation failed - page is blank")
ErrNotFound == Err("ValueError", "Could not find interactive element matching description")

\* Exception(f"{error_msg}\nRetry also failed: {str(retry_error)}")
ErrNavigation(u, e, r) ==
    [type |-> "Exception",
     msg |-> N("Error navigating to ") \o u \o N(": ") \o e.msg
             \o N("\nRetry also failed: ") \o r.msg]

\* what the browser does during one navigate(): page.goto raises, returns
\* no response or a response; after no response, the content-loaded wait
\* that follows the assignment of window.location.href; the content-loaded
\* wait and the network-idle wait; the URL read back after the waits;
\* whether context.new_page() opens a page; the goto on the fresh page
\* (a choice that cannot show is fixed: the first wait is made only after no
\* response, nothing is waited for or read back when the first attempt has
\* raised, no page is opened when the URL read back is a real one, no goto
\* follows a new_page() that raises)
NavEnvs ==
    {env \in [first : {"raise", "none", "response"}, altwait : {"ok", "timeout"},
              dom : {"ok", "timeout"}, idle : {"ok", "timeout"},
              read : {"url", "blank", "empty"},
              newpage : {"ok", "raise"}, retry : {"raise", "response", "blank"}] :
        /\ env.first # "none" => env.altwait = "ok"
        /\ (env.first = "raise" \/ env.altwait = "timeout")
              => (env.dom = "ok" /\ env.idle = "ok" /\ env.read = "url")
        /\ (env.first # "raise" /\ env.altwait = "ok" /\ env.read = "url")
              => (env.newpage = "ok" /\ env.retry = "response")
        /\ env.newpage = "raise" => env.retry = "raise"}

\* a navigate() that goes on retrying with fresh pages while the retry fails
NavigateRunAgain(url, page, hist, ctxOpen, env) ==
    LET u == Normalize(url)
    IN Did(Fail(ErrNavigation(u, ErrTimeout, ErrTimeout), Page(page.id + 2, AboutBlank, FALSE), hist),
           <<Ev("goto", page.id, u), Ev("close", page.id, <<>>),
             Ev("new_page", page.id + 1, <<>>), Ev("goto", page.id + 1, u),
             Ev("close", page.id + 1, <<>>), Ev("new_page", page.id + 2, <<>>),
             Ev("goto", page.id + 2, u)>>, env)

\* BrowserAgent.navigate under one behaviour of the browser
NavigateRun(url, page, hist, ctxOpen, env) ==
    LET u == Normalize(url)
        noResponse == ~page.closed /\ env.first = "none"
        raised == page.closed \/ env.first = "raise" \/ (noResponse /\ env.altwait = "timeout")
        current_url == CASE env.read = "url" -> u \o N("/")
                         [] env.read = "blank" -> AboutBlank
                         [] OTHER -> <<>>
        blank == current_url = <<>> \/ current_url = AboutBlank
        e == IF page.closed THEN ErrTargetClosed
             ELSE IF raised THEN ErrTimeout ELSE ErrBlank
        attempt1 == <<Ev("goto", page.id, u)>>
                    \o (IF noResponse
                        THEN <<Ev("assign", page.id, u), Ev("wait", page.id, N("domcontentloaded"))>>
                        ELSE <<>>)
                    \o (IF ~raised
                        THEN <<Ev("wait", page.id, N("domcontentloaded")),
                               Ev("wait", page.id, N("networkidle")),
                               Ev("url", page.id, current_url)>>
                        ELSE <<>>)
        discard == attempt1 \o <<Ev("close", page.id, <<>>)>>
        opened == ctxOpen /\ env.newpage = "ok"
        retry == discard \o <<Ev("new_page", page.id + 1, <<>>), Ev("goto", page.id + 1, u)>>
    IN IF ~raised /\ ~blank
       THEN Did(Ok(N("Navigated to ") \o current_url, Page(page.id, current_url, FALSE),
                   Append(hist, [action |-> "navigate", url |-> u])), attempt1, env)
       ELSE IF ~opened
       THEN Did(Fail(ErrNavigation(u, e, ErrTargetClosed), Page(page.id, page.url, TRUE), hist),
                discard, env)
       ELSE IF env.retry = "raise"
       THEN Did(Fail(ErrNavigation(u, e, ErrTimeout), Page(page.id + 1, AboutBlank, FALSE), hist),
                retry, env)
       ELSE Did(Ok(N("Navigated to ") \o u \o N(" (with fresh page)"),
                   Page(page.id + 1, IF env.retry = "response" THEN u \o N("/") ELSE AboutBlank,
                        FALSE), hist), retry, env)

\* BrowserAgent.navigate (the two waits that are allowed to time out change
\* neither the result nor the page nor the history: one behaviour of them
\* stands for all)
Navigate(url, page, hist, ctxOpen) ==
    {NavigateRun(url, page, hist, ctxOpen, env) :
        env \in {e \in NavEnvs : e.dom = "ok" /\ e.idle = "ok"}}

\* page.wait_for_selector(selector, state="visible"): the element shows in
\* time or the wait times out
ClickEnvs == [wait : {"visible", "timeout"}]

ClickRun(selector, page, hist, env) ==
    IF page.closed
    THEN Did(Fail(ErrTargetClosed, page, hist), <<Ev("wait", page.id, selector)>>, env)
    ELSE IF env.wait = "timeout"
    THEN Did(Fail(ErrTimeout, page, hist), <<Ev("wait", page.id, selector)>>, env)
    ELSE Did(Ok(N("Clicked element matching ") \o selector, page,
                Append(hist, [action |-> "click", selector |-> selector])),
             <<Ev("wait", page.id, selector), Ev("click", page.id, selector)>>, env)

\* BrowserAgent.click
Click(selector, page, hist) ==
    {ClickRun(selector, page, hist, env) : env \in ClickEnvs}

\* button_selectors of type(), in their ranked order
button_selectors ==
    <<"input[name='btnK']", "input[value='Google Search']", ".gNO89b",
      "[aria-label='Google Search']">>

\* the pieces of a URL that hold a word
Holding(word) ==
    CASE word = "google.com" -> {"google.com"}
      [] word = "search" -> {"/search"}
      [] OTHER -> {}

\* word in current_url
In(word, url) == \E i \in 1..Len(url) : url[i] \in Holding(word)

\* "google.com" in current_url and not "search" in current_url
StillUnsubmitted(url) == In("google.com", url) /\ ~In("search", url)

\* where a submitted form leads
Submitted(url) == IF In("google.com", url) THEN SearchURL ELSE ResultsURL

\* what the browser does during one type(): the field shows or the wait
\* times out; the load wait after Enter returns or times out; Enter submits
\* the form or leaves the page where it is; each fallback button is absent,
\* clicked with the load wait returning, or clicked with the load wait
\* timing out
\* (a choice that cannot show is fixed: nothing follows a field that never
\* shows, and no button is looked for after a load wait that timed out or
\* a form that was submitted)
NoButtons == [i \in 1..Len(button_selectors) |-> "absent"]
TypeEnvs ==
    {env \in [field : {"visible", "timeout"}, load : {"ok", "timeout"},
              enter : {"stay", "submit"},
              buttons : [1..Len(button_selectors) -> {"absent", "clicked", "stalled"}]] :
        /\ env.field = "timeout" => (env.load = "ok" /\ env.enter = "stay")
        /\ (env.field = "timeout" \/ env.load = "timeout" \/ env.enter = "submit")
              => env.buttons = NoButtons}

\* for btn_selector in button_selectors: the buttons clicked, in order
RECURSIVE Clicks(_, _)
Clicks(i, buttons) ==
    IF i > Len(button_selectors) THEN <<>>
    ELSE IF buttons[i] = "absent" THEN Clicks(i + 1, buttons)
    ELSE IF buttons[i] = "clicked" THEN <<i>>
    ELSE <<i>> \o Clicks(i + 1, buttons)

\* BrowserAgent.type under one behaviour of the browser
TypeRun(selector, text, page, hist, env) ==
    LET resolve == <<Ev("wait", page.id, selector)>>
        entered == resolve \o <<Ev("click", page.id, selector), Ev("press", page.id, N("Control+A")),
                                Ev("press", page.id, N("Backspace")), Ev("type", page.id, text),
                                Ev("press", page.id, N("Enter"))>>
        current_url == IF env.enter = "submit" THEN Submitted(page.url) ELSE page.url
        fallback == env.load = "ok" /\ StillUnsubmitted(current_url)
        clicks == IF fallback THEN Clicks(1, env.buttons) ELSE <<>>
        final_url == IF clicks # <<>> THEN SearchURL ELSE current_url
    IN IF page.closed THEN Did(Fail(ErrTargetClosed, page, hist), resolve, env)
       ELSE IF env.field = "timeout" THEN Did(Fail(ErrTimeout, page, hist), resolve, env)
       ELSE Did(Ok(N("Typed '") \o text \o N("' into ") \o selector \o N(" and submitted"),
                   Page(page.id, final_url, FALSE),
                   Append(hist, [action |-> "type", selector |-> selector, text |-> text])),
                entered \o [k \in 1..Len(clicks) |->
                               Ev("click", page.id, N(button_selectors[clicks[k]]))], env)

\* BrowserAgent.type
Type(selector, text, page, hist) ==
    {TypeRun(selector, text, page, hist, env) : env \in {e \in TypeEnvs : StillUnsubmitted(page.url) \/ e.buttons = NoButtons}}

PageTexts == {N("Example Domain")}

\* what the browser does during one get_text(): the wait for a visible
\* match returns or times out; query_selector finds an element or none
\* (after a wait that timed out nothing is asked for)
GetTextEnvs ==
    {env \in [wait : {"visible", "timeout"}, query : {"element", "none"}, text : PageTexts] :
        env.wait = "timeout" => env.query = "none"}

\* BrowserAgent.get_text under one behaviour of the browser
GetTextRun(selector, page, hist, env) ==
    IF page.closed
    THEN Did(Fail(ErrTargetClosed, page, hist), <<Ev("wait", page.id, selector)>>, env)
    ELSE IF env.wait = "timeout"
    THEN Did(Fail(ErrTimeout, page, hist), <<Ev("wait", page.id, selector)>>, env)
    ELSE IF env.query = "none"
    THEN Did(Ok(N("No element found matching ") \o selector, page, hist),
             <<Ev("wait", page.id, selector), Ev("query", page.id, selector)>>, env)
    ELSE Did(Ok(env.text, page,
                Append(hist, [action |-> "get_text", selector |-> selector, result |-> env.text])),
             <<Ev("wait", page.id, selector), Ev("query", page.id, selector)>>, env)

\* BrowserAgent.get_text
GetText(selector, page, hist) ==
    {GetTextRun(selector, page, hist, env) : env \in GetTextEnvs}

\* selector_maps of find_element
SearchSelectors ==
    <<"[name='q']", "#searchbox_input", "[data-testid='searchbox_input']",
      "[type='text']", "[type='search']", "[role='searchbox']",
      "input[placeholder*='search']", "input[placeholder*='Search']">>
ButtonSelectors ==
    <<"[type='submit']", "button[type='submit']", "[aria-label*='search' i]",
      "[aria-label*='Search' i]", "button[aria-label*='search' i]",
      "button[aria-label*='Search' i]">>

\* str.lower() of one piece of a description
LowerPiece(p) ==
    CASE p = "Search" -> "search"
      [] p = "INPUT" -> "input"
      [] p = "Text" -> "text"
      [] p = "Submit" -> "submit"
      [] OTHER -> p

\* a classification that compares without lower()
IsSearchLikeExact(description) ==
    \E i \in 1..Len(description) : description[i] \in {"search", "input", "text"}

\* any(term in description.lower() for term in ["search", "input", "text"])
IsSearchLike(description) ==
    \E i \in 1..Len(description) : LowerPiece(description[i]) \in {"search", "input", "text"}

SelectorsFor(description) ==
    IF IsSearchLike(description) THEN SearchSelectors ELSE ButtonSelectors

\* what the page holds for each candidate selector: no element in time
\* (the wait raises), an element that is hidden, disabled, or ready; the
\* candidates after the first MaxCandidate ones match nothing
CandidateStates == {"missing", "hidden", "disabled", "ready"}
FindEnvs == [status : [1..MaxCandidate -> CandidateStates]]
\* the pages on which at most one candidate is ready and the others are missing
OneReadyEnvs ==
    {env \in FindEnvs :
        /\ \A i \in 1..MaxCandidate : env.status[i] \in {"missing", "ready"}
        /\ Cardinality({i \in 1..MaxCandidate : env.status[i] = "ready"}) <= 1}
StatusOf(env, i) == IF i <= MaxCandidate THEN env.status[i] ELSE "missing"

\* for selector in selectors: the index of the candidate returned, 0 if none
RECURSIVE FirstReady(_, _, _, _)
FirstReady(i, n, env, closed) ==
    IF i > n THEN 0
    ELSE IF ~closed /\ StatusOf(env, i) = "ready" THEN i
    ELSE FirstReady(i + 1, n, env, closed)

\* BrowserAgent.find_element under one behaviour of the page
FindElementRun(description, page, hist, env) ==
    LET selectors == SelectorsFor(description)
        found == FirstReady(1, Len(selectors), env, page.closed)
        tried == IF found = 0 THEN Len(selectors) ELSE found
        ev == [k \in 1..tried |-> Ev("wait", page.id, N(selectors[k]))]
    IN IF found = 0 THEN Did(Fail(ErrNotFound, page, hist), ev, env)
       ELSE Did(Ok(N(selectors[found]), page, hist), ev, env)

\* BrowserAgent.find_element
FindElement(description, page, hist) ==
    {FindElementRun(description, page, hist, env) : env \in OneReadyEnvs}

\* self.tools[action["tool"]](**action["args"]) once the arguments are bound
ToolOutcomes(tool, kw, page, hist, ctxOpen) ==
    CASE tool = N("navigate") -> Navigate(kw["url"].s, page, hist, ctxOpen)
      [] tool = N("click") -> Click(kw["selector"].s, page, hist)
      [] tool = N("type") -> Type(kw["selector"].s, kw["text"].s, page, hist)
      [] tool = N("get_text") -> GetText(kw["selector"].s, page, hist)
      [] tool = N("find_element") -> FindElement(kw["description"].s, page, hist)

\* --------------------------------------------------- replies of the model
BraceTexts == UNION {[1..n -> {LB, RB, X}] : n \in 0..MaxBraceLen}

Proposal(tool, pairs) ==
    <<LB, P("tool", N(tool)), COMMA, K("args"), LB>> \o pairs \o <<RB, RB>>
NavExample == Proposal("navigate", <<P("url", N("example.org"))>>)
ClickQ == Proposal("click", <<P("selector", N("#q"))>>)
TypeQ == Proposal("type", <<P("selector", N("#q")), COMMA, P("text", N("cats"))>>)
GetH1 == Proposal("get_text", <<P("selector", N("h1"))>>)
FindSearch == Proposal("find_element", <<P("description", <<"Search", " box">>)>>)

\* exactly one JSON object of the proposal shape
WellFormedTexts == {NavExample, ClickQ, TypeQ, GetH1, FindSearch}

\* a proposal inside prose, and one with a further member
WrappedTexts ==
    {<<RB, X>> \o ClickQ \o <<X>>,
     <<LB, K("args"), LB, P("selector", N("h1")), RB, COMMA,
       P("tool", N("get_text")), COMMA, P("note", N("read the title")), RB>>}

\* braces present, but the text between the first { and the last } is no JSON
UnparseableTexts ==
    {NavExample \o <<X, LB, RB>>,
     SubSeq(NavExample, 1, Len(NavExample) - 1) \o <<X>>,
     <<LB, P("tool", N("click")), COMMA, RB>>,
     <<LB, P("tool", N("click")), P("args", N("x")), RB>>,
     <<LB, RB, X, RB>>}

\* JSON objects that are no proposal the agent can dispatch
InvalidTexts ==
    {Proposal("scroll", <<P("selector", N("#q"))>>),
     <<LB, P("tool", N("scroll")), RB>>,
     <<LB, K("args"), LB, P("url", N("example.org")), RB, RB>>,
     <<LB, P("tool", N("navigate")), RB>>,
     <<LB, P("tool", N("navigate")), COMMA, P("args", N("example.org")), RB>>,
     Proposal("navigate", <<P("selector", N("#q"))>>),
     Proposal("click", <<>>)}

ProposalReplies ==
    BraceTexts \cup WellFormedTexts \cup WrappedTexts \cup UnparseableTexts \cup InvalidTexts

Word(s) == [i \in 1..Len(s) |-> Ch(s[i])]

\* replies to the continuation check: DONE in three spellings, and a new
\* action JSON after a word that is no DONE
ContinuationReplies ==
    {Word(<<"D", "O", "N", "E">>),
     Word(<<"d", "o", "n", "e">>),
     <<X>> \o Word(<<"D", "o", "N", "e">>) \o <<X>>,
     Word(<<"D", "O", "x", "N", "E">>) \o ClickQ}

\* ------------------------------------------------------- "DONE" detection
\* the characters of a reply; a member token stands for characters that
\* spell no part of DONE
Chars(text) == [i \in 1..Len(text) |-> IF text[i].t = "ch" THEN text[i].v[1] ELSE "#"]

UpperChar(c) ==
    CASE c = "d" -> "D"
      [] c = "o" -> "O"
      [] c = "n" -> "N"
      [] c = "e" -> "E"
      [] OTHER -> c

\* str.upper()
Upper(cs) == [i \in 1..Len(cs) |-> UpperChar(cs[i])]

\* pat in cs
Contains(cs, pat) ==
    \E i \in 0..(Len(cs) - Len(pat)) : SubSeq(cs, i + 1, i + Len(pat)) = pat

\* "DONE" in next_response: no upper()
HasDoneExact(text) == Contains(Chars(text), <<"D", "O", "N", "E">>)

\* "DO" in next_response.upper(): a shorter token
HasDonePrefix(text) == Contains(Upper(Chars(text)), <<"D", "O">>)

\* "DONE" in next_response.upper()
HasDone(text) == Contains(Upper(Chars(text)), <<"D", "O", "N", "E">>)

\* ------------------------------------------------- execute(): pure pieces
Msg(role, content, obj) == [role |-> role, content |-> content, obj |-> obj]

\* the messages of a proposal request
FirstMessages(url, cmd) ==
    <<Msg("system", SYSTEM_PROMPT, EmptyDict),
      Msg("user", N("Current page: ") \o url \o N(" Command: ") \o cmd, EmptyDict)>>

\* the two messages appended for the continuation check
CheckMessages(msgs, act, res, url, cmd) ==
    msgs \o
    <<Msg("assistant", N("str(action)"), act),
      Msg("user",
          N("Previous action result: ") \o res \o N(" Current URL: ") \o url
          \o N(" Are we done with the command: ") \o cmd
          \o N("? If not, what's the next step? Respond with a new action JSON or 'DONE' if complete."),
          EmptyDict)>>

ErrJsonDecode == Err("JSONDecodeError", "json.loads")

\* Extract with the first } in place of the last one
ExtractFirstClose(text) ==
    LET json_start == Find(text, "lbrace")
        json_end == Find(text, "rbrace") + 1
    IN IF json_start >= 0 /\ json_end > json_start
       THEN LET r == Loads(Slice(text, json_start, json_end))
            IN IF r.ok THEN [err |-> NoErr, action |-> r.val]
               ELSE [err |-> ErrJsonDecode, action |-> EmptyDict]
       ELSE [err |-> ErrNoJson, action |-> EmptyDict]

\* the extraction of the JSON object from the reply
Extract(text) ==
    LET json_start == Find(text, "lbrace")
        json_end == RFind(text, "rbrace") + 1
    IN IF json_start >= 0 /\ json_end > json_start
       THEN LET r == Loads(Slice(text, json_start, json_end))
            IN IF r.ok THEN [err |-> NoErr, action |-> r.val]
               ELSE [err |-> ErrJsonDecode, action |-> EmptyDict]
       ELSE [err |-> ErrNoJson, action |-> EmptyDict]

\* Validate without the check of the tool name
ValidateFormatOnly(act) ==
    IF "tool" \notin DOMAIN act \/ "args" \notin DOMAIN act THEN ErrInvalidFormat
    ELSE NoErr

\* the validation of the action format
Validate(act) ==
    IF "tool" \notin DOMAIN act \/ "args" \notin DOMAIN act THEN ErrInvalidFormat
    ELSE IF act["tool"].s \notin tools THEN ErrUnknownTool
    ELSE NoErr

\* **action["args"]: a mapping whose keys are the tool's parameters
Bind(act) ==
    IF act["args"].ty # "obj" THEN ErrKwargs
    ELSE IF DOMAIN act["args"].o # Params(act["tool"].s) THEN ErrKwargs
    ELSE NoErr

\* an inner handler that turns every exception into the ValueError
InnerHandlerWrapAll(e) == ErrInvalidJson

\* except json.JSONDecodeError / except Exception of the inner try
InnerHandler(e) == IF e.type = "JSONDecodeError" THEN ErrInvalidJson ELSE e

\* an outer handler that raises an error of its own
OuterHandlerWrap(e) == Err("RuntimeError", "Error executing command")

\* except Exception of the outer try
OuterHandler(e) == e

\* the stabilize wait: page.wait_for_load_state("networkidle") raises on timeout
StabilizeOutcomes == {NoErr, ErrTimeout}

\* ------------------------------------------------------------------- state
VARIABLES
    provider,        \* llm_config.provider
    playwright,      \* "none", "started", "stopped"
    chrome_process,  \* "unset" (no attribute), "running", "killed"
    browser,         \* "none", "open", "closed"
    page,            \* self.page
    llm,             \* self.llm is set
    action_history,  \* self.action_history
    attempt,         \* setup(): the attach attempt
    slept,           \* setup(): seconds slept between its attach attempts so far
    pc,              \* the await the caller's coroutine is suspended at
    command,         \* execute(): command
    messages,        \* execute(): messages
    response_text,   \* execute(): response_text
    action,          \* execute(): action
    result,          \* execute(): result
    next_response,   \* execute(): next_response
    lastCall,        \* the method that returned or raised last
    status,          \* "none", "returned", "raised"
    retval,          \* what it returned
    error,           \* what it raised
    steps,           \* execute() frames entered so far
    inflight,        \* completion requests and page operations awaited
    requests,        \* completion requests of this top-level execute()
    proposals,       \* replies to the proposal requests of this top-level execute()
    dispatched,      \* tool calls of this top-level execute()
    trace,           \* events of this top-level execute()
    toolErr,         \* the error of the tool call that failed, if any
    lastTool         \* the tool method a caller invoked last, with what the browser did

sessionVars == <<provider, playwright, chrome_process, browser, llm, attempt, slept>>
frameVars == <<command, messages, response_text, action, result, next_response>>
outVars == <<lastCall, status, retval, error>>
logVars == <<requests, proposals, dispatched, trace, toolErr>>
vars == <<sessionVars, page, action_history, pc, frameVars, outVars, steps, inflight, logVars, lastTool>>

\* no tool method was invoked by a caller
NoCall == [op |-> "none", n |-> 0]

\* BrowserAgent.__init__
Init ==
    /\ provider \in ConfiguredProviders
    /\ playwright = "none"
    /\ chrome_process = "unset"
    /\ browser = "none"
    /\ page = NoPage
    /\ llm = FALSE
    /\ action_history = <<>>
    /\ attempt = 0
    /\ slept = 0
    /\ pc = "idle"
    /\ command = <<>>
    /\ messages = <<>>
    /\ response_text = <<>>
    /\ action = EmptyDict
    /\ result = <<>>
    /\ next_response = <<>>
    /\ lastCall = "none"
    /\ status = "none"
    /\ retval = <<>>
    /\ error = NoErr
    /\ steps = 0
    /\ inflight = 0
    /\ requests = <<>>
    /\ proposals = <<>>
    /\ dispatched = <<>>
    /\ trace = <<>>
    /\ toolErr = NoErr
    /\ lastTool = NoCall

\* no execute() frame: its locals and the record of its call are gone
NoFrame ==
    /\ command' = <<>>
    /\ messages' = <<>>
    /\ response_text' = <<>>
    /\ action' = EmptyDict
    /\ result' = <<>>
    /\ next_response' = <<>>
    /\ requests' = <<>>
    /\ proposals' = <<>>
    /\ dispatched' = <<>>
    /\ trace' = <<>>
    /\ toolErr' = NoErr

Returns(call, value) ==
    /\ lastCall' = call
    /\ status' = "returned"
    /\ retval' = value
    /\ error' = NoErr
    /\ pc' = "idle"

Raises(call, e) ==
    /\ lastCall' = call
    /\ status' = "raised"
    /\ retval' = <<>>
    /\ error' = e
    /\ pc' = "idle"

\* ------------------------------------------------------------------- setup
ErrSpawn == Err("FileNotFoundError", "chrome")
ErrConnect == Err("Error", "connect_over_cdp")
ErrAttach == Err("Error", "new_context / new_page / stealth_async")
ErrUnsupported == Err("ValueError", "Unsupported LLM provider")

\* _init_llm: the providers it builds a client for
InitLlmOk(p) == p \in {"openai", "anthropic"}

\* asyncio.sleep(retry_delay) after failed attempt n
Backoff(n) == retry_delay

\* setup() up to the first attach attempt: the driver is started and the
\* browser process spawned
Setup ==
    /\ pc = "idle"
    /\ playwright = "none"
    /\ playwright' = "started"
    /\ \/ /\ chrome_process' = "running"
          /\ attempt' = 0
          /\ pc' = "attach"
          /\ UNCHANGED outVars
       \/ /\ Raises("setup", ErrSpawn)
          /\ UNCHANGED <<chrome_process, attempt>>
    /\ slept' = 0
    /\ NoFrame
    /\ UNCHANGED <<provider, browser, llm, page, action_history, steps, inflight>>
    /\ UNCHANGED lastTool

\* an attempt that goes on to a further attempt whatever its number
AttemptFailedRetryAlways(e) ==
    /\ pc' = "retry_sleep"
    /\ UNCHANGED <<chrome_process, outVars>>

\* a last attempt that raises and leaves the spawned process running
AttemptFailedNoKill(e) ==
    IF attempt < max_retries - 1
    THEN /\ pc' = "retry_sleep"
         /\ UNCHANGED <<chrome_process, outVars>>
    ELSE /\ UNCHANGED chrome_process
         /\ Raises("setup", e)

\* except of one attempt: sleep and retry, or kill the process and raise
AttemptFailed(e) ==
    IF attempt < max_retries - 1
    THEN /\ pc' = "retry_sleep"
         /\ UNCHANGED <<chrome_process, outVars>>
    ELSE /\ chrome_process' = "killed"
         /\ Raises("setup", e)

\* one attach attempt: the connection fails; or the browser is connected
\* and getting its context and page ready fails; or the page is ready and
\* the completion client is built or refused
Attach ==
    /\ pc = "attach"
    /\ \/ /\ AttemptFailed(ErrConnect)
          /\ UNCHANGED <<browser, page, llm>>
       \/ /\ playwright = "started"
          /\ chrome_process = "running"
          /\ browser' = "open"
          /\ \/ /\ AttemptFailed(ErrAttach)
                /\ UNCHANGED <<page, llm>>
             \/ /\ page' = Page(1, StartURL, FALSE)
                /\ IF InitLlmOk(provider)
                   THEN /\ llm' = TRUE
                        /\ Returns("setup", <<>>)
                        /\ UNCHANGED chrome_process
                   ELSE /\ AttemptFailed(ErrUnsupported)
                        /\ UNCHANGED llm
    /\ attempt' = IF pc' = "idle" THEN 0 ELSE attempt
    /\ slept' = IF pc' = "idle" THEN 0 ELSE slept
    /\ UNCHANGED <<provider, playwright, action_history, frameVars, steps, inflight, logVars>>
    /\ UNCHANGED lastTool

\* asyncio.sleep(retry_delay) between two attempts
RetrySleep ==
    /\ pc = "retry_sleep"
    /\ attempt' = attempt + 1
    /\ slept' = slept + Backoff(attempt)
    /\ pc' = "attach"
    /\ UNCHANGED <<provider, playwright, chrome_process, browser, llm, page, action_history,
                   frameVars, outVars, steps, inflight, logVars>>
    /\ UNCHANGED lastTool

\* ------------------------------------------------------------------- close
ErrClose == Err("Error", "browser.close")
ErrStop == Err("Error", "playwright.stop")

\* close() returned or raised; a setup() that is suspended stays where it is
Closed(st, e) ==
    /\ lastCall' = "close"
    /\ status' = st
    /\ retval' = <<>>
    /\ error' = e
    /\ pc' = pc

\* close(): the browser, the driver, the process, each release reached
\* only when the one before it returned
Close ==
    /\ pc \in {"idle", "attach", "retry_sleep"}
    /\ \/ /\ browser # "none"
          /\ Closed("raised", ErrClose)
          /\ UNCHANGED <<browser, page, playwright, chrome_process>>
       \/ /\ playwright # "none"
          /\ browser' = IF browser = "none" THEN "none" ELSE "closed"
          /\ page' = IF browser = "none" THEN page ELSE Page(page.id, page.url, TRUE)
          /\ Closed("raised", ErrStop)
          /\ UNCHANGED <<playwright, chrome_process>>
       \/ /\ browser' = IF browser = "none" THEN "none" ELSE "closed"
          /\ page' = IF browser = "none" THEN page ELSE Page(page.id, page.url, TRUE)
          /\ playwright' = IF playwright = "none" THEN "none" ELSE "stopped"
          /\ chrome_process' = IF chrome_process = "unset" THEN "unset" ELSE "killed"
          /\ Closed("returned", NoErr)
    /\ NoFrame
    /\ UNCHANGED <<provider, llm, attempt, slept, action_history, steps, inflight>>
    /\ UNCHANGED lastTool

\* ----------------------------------------------------------------- execute
\* self.tools with two entries bound to each other's method
MethodSwapped(name) ==
    IF name = N("click") THEN N("get_text")
    ELSE IF name = N("get_text") THEN N("click")
    ELSE name

\* self.tools: the method bound to a tool name
Method(name) == name

\* the tool call an action stands for
CallOf(act) == [tool |-> Method(act["tool"].s), kw |-> act["args"].o]

\* execute() from its first line to the await of the proposal request
EnterFrame(cmd, reqs, tr, awaited) ==
    LET m == FirstMessages(page.url, cmd)
    IN /\ command' = cmd
       /\ messages' = m
       /\ response_text' = <<>>
       /\ action' = EmptyDict
       /\ result' = <<>>
       /\ requests' = Append(reqs, [kind |-> "propose", msgs |-> m])
       /\ trace' = Append(tr, "propose_req")
       /\ inflight' = awaited + 1
       /\ steps' = steps + 1
       /\ pc' = "propose"

\* an execute(cmd) without the check of self.llm
ExecuteUnguarded(cmd) ==
    /\ pc = "idle"
    /\ steps < MaxSteps
    /\ EnterFrame(cmd, <<>>, <<>>, inflight)
    /\ next_response' = <<>>
    /\ lastCall' = "execute"
    /\ status' = "none"
    /\ retval' = <<>>
    /\ error' = NoErr
    /\ proposals' = <<>>
    /\ dispatched' = <<>>
    /\ toolErr' = NoErr
    /\ UNCHANGED <<sessionVars, page, action_history>>
    /\ UNCHANGED lastTool

\* a top-level call execute(cmd)
Execute(cmd) ==
    /\ pc = "idle"
    /\ steps < MaxSteps
    /\ IF ~llm
       THEN /\ Raises("execute", ErrNotInitialized)
            /\ steps' = steps + 1
            /\ requests' = <<>>
            /\ trace' = <<>>
            /\ UNCHANGED <<frameVars, inflight>>
       ELSE /\ EnterFrame(cmd, <<>>, <<>>, inflight)
            /\ next_response' = <<>>
            /\ lastCall' = "execute"
            /\ status' = "none"
            /\ retval' = <<>>
            /\ error' = NoErr
    /\ proposals' = <<>>
    /\ dispatched' = <<>>
    /\ toolErr' = NoErr
    /\ UNCHANGED <<sessionVars, page, action_history>>
    /\ UNCHANGED lastTool

\* the proposal request fails
ProposeFails ==
    /\ pc = "propose"
    /\ inflight' = inflight - 1
    /\ trace' = trace \o <<"propose_fail", "raise">>
    /\ Raises("execute", OuterHandler(ErrProvider))
    /\ UNCHANGED <<sessionVars, page, action_history, frameVars, steps, requests,
                   proposals, dispatched, toolErr>>
    /\ UNCHANGED lastTool

\* the reply to the proposal request: extract, validate, dispatch
ProposeReply(text) ==
    /\ pc = "propose"
    /\ response_text' = text
    /\ proposals' = Append(proposals, text)
    /\ LET ex == Extract(text)
           v == IF ex.err = NoErr THEN Validate(ex.action) ELSE ex.err
           b == IF v = NoErr THEN Bind(ex.action) ELSE v
       IN /\ action' = ex.action
          /\ IF b # NoErr
             THEN /\ Raises("execute", OuterHandler(InnerHandler(b)))
                  /\ inflight' = inflight - 1
                  /\ trace' = trace \o <<"propose_reply", "raise">>
                  /\ UNCHANGED dispatched
             ELSE /\ pc' = "tool"
                  /\ dispatched' = Append(dispatched, CallOf(ex.action))
                  /\ inflight' = inflight
                  /\ trace' = trace \o <<"propose_reply", "dispatch">>
                  /\ UNCHANGED outVars
    /\ UNCHANGED <<sessionVars, page, action_history, command, messages, result,
                   next_response, steps, requests, toolErr>>
    /\ UNCHANGED lastTool

\* the dispatched tool returns or raises
ToolDone ==
    /\ pc = "tool"
    /\ \E o \in ToolOutcomes(CallOf(action).tool, CallOf(action).kw, page, action_history,
                             browser = "open") :
          /\ page' = o.page
          /\ action_history' = o.hist
          /\ IF o.ok
             THEN /\ result' = o.result
                  /\ pc' = "stabilize"
                  /\ inflight' = inflight
                  /\ trace' = trace \o <<"tool_ok", "stabilize_req">>
                  /\ UNCHANGED <<outVars, toolErr>>
             ELSE /\ Raises("execute", OuterHandler(InnerHandler(o.err)))
                  /\ toolErr' = o.err
                  /\ inflight' = inflight - 1
                  /\ trace' = trace \o <<"tool_raise", "raise">>
                  /\ UNCHANGED result
    /\ UNCHANGED <<sessionVars, command, messages, response_text, action, next_response,
                   steps, requests, proposals, dispatched>>
    /\ UNCHANGED lastTool

\* the stabilize wait ends; on success the continuation request is sent
StabilizeDone ==
    /\ pc = "stabilize"
    /\ \E e \in StabilizeOutcomes :
          IF e # NoErr
          THEN /\ Raises("execute", OuterHandler(InnerHandler(e)))
               /\ inflight' = inflight - 1
               /\ trace' = trace \o <<"stabilize_timeout", "raise">>
               /\ UNCHANGED <<messages, requests>>
          ELSE /\ messages' = CheckMessages(messages, action, result, page.url, command)
               /\ requests' = Append(requests, [kind |-> "continue", msgs |-> messages'])
               /\ pc' = "continue"
               /\ inflight' = inflight
               /\ trace' = trace \o <<"stabilize_ok", "continue_req">>
               /\ UNCHANGED outVars
    /\ UNCHANGED <<sessionVars, page, action_history, command, response_text, action,
                   result, next_response, steps, proposals, dispatched, toolErr>>
    /\ UNCHANGED lastTool

\* the continuation request fails
ContinueFails ==
    /\ pc = "continue"
    /\ inflight' = inflight - 1
    /\ trace' = trace \o <<"continue_fail", "raise">>
    /\ Raises("execute", OuterHandler(InnerHandler(ErrProvider)))
    /\ UNCHANGED <<sessionVars, page, action_history, frameVars, steps, requests,
                   proposals, dispatched, toolErr>>
    /\ UNCHANGED lastTool

\* a continuation check whose reply, when it is no DONE, is dispatched as the
\* next action
ContinueReplyDispatch(text) ==
    /\ pc = "continue"
    /\ next_response' = text
    /\ IF HasDone(text)
       THEN /\ Returns("execute", result)
            /\ inflight' = inflight - 1
            /\ trace' = trace \o <<"continue_reply", "return">>
            /\ UNCHANGED <<action, dispatched>>
       ELSE /\ action' = Extract(text).action
            /\ dispatched' = Append(dispatched, CallOf(Extract(text).action))
            /\ pc' = "tool"
            /\ inflight' = inflight
            /\ trace' = trace \o <<"continue_reply", "dispatch">>
            /\ UNCHANGED outVars
    /\ UNCHANGED <<sessionVars, page, action_history, command, messages, response_text,
                   result, steps, requests, proposals, toolErr>>
    /\ UNCHANGED lastTool

\* the reply to the continuation check: return the result, or call
\* execute(command) again
ContinueReply(text) ==
    /\ pc = "continue"
    /\ next_response' = text
    /\ IF HasDone(text)
       THEN /\ Returns("execute", result)
            /\ inflight' = inflight - 1
            /\ trace' = trace \o <<"continue_reply", "return">>
            /\ UNCHANGED <<command, messages, response_text, action, result, steps, requests>>
       ELSE /\ steps < MaxSteps
            /\ EnterFrame(command, requests, Append(trace, "continue_reply"), inflight - 1)
            /\ UNCHANGED outVars
    /\ UNCHANGED <<sessionVars, page, action_history, proposals, dispatched, toolErr>>
    /\ UNCHANGED lastTool

Next ==
    \/ Setup
    \/ Attach
    \/ RetrySleep
    \/ Close
    \/ \E cmd \in Commands : Execute(cmd)
    \/ ProposeFails
    \/ \E text \in ProposalReplies : ProposeReply(text)
    \/ ToolDone
    \/ StabilizeDone
    \/ ContinueFails
    \/ \E text \in ContinuationReplies : ContinueReply(text)

Spec == Init /\ [][Next]_vars

\* the awaited operations end: a completion request is answered or fails,
\* a page operation returns or times out
ExecuteStep ==
    \/ ProposeFails
    \/ \E text \in ProposalReplies : ProposeReply(text)
    \/ ToolDone
    \/ StabilizeDone
    \/ ContinueFails
    \/ \E text \in ContinuationReplies : ContinueReply(text)

LiveSpec == Spec /\ WF_vars(ExecuteStep)

\* ------------------------------------------- the tool methods, called directly
NavUrls == {N("example.org"), <<"https://", "example.org">>, <<"http://", "example.org">>}
Selectors == {N("#q")}
Texts == {N("cats")}
Descriptions == {<<"Search", " box">>, <<"Submit", " button">>, <<"con", "text", " menu">>}

\* a session after setup() returned, on the tab it attached to, or after
\* close() returned
ToolInit ==
    /\ provider = "anthropic"
    /\ \/ /\ playwright = "started"
          /\ chrome_process = "running"
          /\ browser = "open"
          /\ page \in {Page(1, StartURL, FALSE), Page(1, LandingURL, FALSE)}
       \/ /\ playwright = "stopped"
          /\ chrome_process = "killed"
          /\ browser = "closed"
          /\ page = Page(1, StartURL, TRUE)
    /\ llm = TRUE
    /\ action_history = <<>>
    /\ attempt = 0
    /\ slept = 0
    /\ pc = "idle"
    /\ command = <<>>
    /\ messages = <<>>
    /\ response_text = <<>>
    /\ action = EmptyDict
    /\ result = <<>>
    /\ next_response = <<>>
    /\ lastCall = "setup"
    /\ status = "returned"
    /\ retval = <<>>
    /\ error = NoErr
    /\ steps = 0
    /\ inflight = 0
    /\ requests = <<>>
    /\ proposals = <<>>
    /\ dispatched = <<>>
    /\ trace = <<>>
    /\ toolErr = NoErr
    /\ lastTool = NoCall

\* await agent.<op>(**args): the call returns o.result or raises o.err
ToolCall(op, args, o) ==
    /\ pc = "idle"
    /\ lastTool.n < MaxCalls
    /\ page' = o.page
    /\ action_history' = o.hist
    /\ lastTool' = [op |-> op, n |-> lastTool.n + 1, args |-> args, page0 |-> page,
                    hist0 |-> action_history, out |-> o]
    /\ IF o.ok THEN Returns(op, o.result) ELSE Raises(op, o.err)
    /\ UNCHANGED <<sessionVars, frameVars, steps, inflight, logVars>>

CallNavigate ==
    \E url \in NavUrls, env \in NavEnvs :
        ToolCall("navigate", [url |-> url],
                 NavigateRun(url, page, action_history, browser = "open", env))

CallClick ==
    \E selector \in Selectors, env \in ClickEnvs :
        ToolCall("click", [selector |-> selector],
                 ClickRun(selector, page, action_history, env))

CallType ==
    \E selector \in Selectors, text \in Texts, env \in TypeEnvs :
        ToolCall("type", [selector |-> selector, text |-> text],
                 TypeRun(selector, text, page, action_history, env))

CallGetText ==
    \E selector \in Selectors, env \in GetTextEnvs :
        ToolCall("get_text", [selector |-> selector],
                 GetTextRun(selector, page, action_history, env))

CallFindElement ==
    \E description \in Descriptions, env \in FindEnvs :
        ToolCall("find_element", [description |-> description],
                 FindElementRun(description, page, action_history, env))

ToolNext == CallNavigate \/ CallClick \/ CallType \/ CallGetText \/ CallFindElement

ToolSpec == ToolInit /\ [][ToolNext]_vars

\* =================================================================== claims
LastN(seq, n) == IF Len(seq) < n THEN seq ELSE SubSeq(seq, Len(seq) - n + 1, Len(seq))
Last(seq) == seq[Len(seq)]
Count(seq, e) == Cardinality({i \in 1..Len(seq) : seq[i] = e})

\* the error kinds of the command loop
MalformedProposal == {ErrNoJson, ErrInvalidJson}
InvalidProposal == {ErrInvalidFormat, ErrUnknownTool}
ToolNames == {N("navigate"), N("click"), N("type"), N("get_text"), N("find_element")}

\* the braces of a reply
Opens(text) == {i \in 1..Len(text) : text[i].t = "lbrace"}
Closes(text) == {i \in 1..Len(text) : text[i].t = "rbrace"}
FirstOpen(text) == CHOOSE i \in Opens(text) : \A j \in Opens(text) : i <= j
LastClose(text) == CHOOSE i \in Closes(text) : \A j \in Closes(text) : j <= i
\* the text from the first { to the last }
Span(text) == SubSeq(text, FirstOpen(text), LastClose(text))
IsMalformed(text) ==
    \/ Opens(text) = {}
    \/ {j \in Closes(text) : j > FirstOpen(text)} = {}
    \/ ~Loads(Span(text)).ok
\* the Action Proposal a well-formed reply holds
ProposalOf(text) == Loads(Span(text)).val

\* this step takes the reply to a proposal request
ReplyStep ==
    /\ pc = "propose"
    /\ Len(trace') = Len(trace) + 2
    /\ trace'[Len(trace) + 1] = "propose_reply"

\* this step ends execute() with an error of one of the kinds, and nothing
\* was dispatched, recorded or requested in it
FailsUndispatched(kinds) ==
    /\ pc' = "idle"
    /\ lastCall' = "execute"
    /\ status' = "raised"
    /\ error' \in kinds
    /\ dispatched' = dispatched
    /\ action_history' = action_history
    /\ page' = page
    /\ requests' = requests

\* C1: a reply to a proposal request with no {, or no } after the first {,
\* or whose text from the first { to the last } is no JSON, makes execute()
\* fail with MalformedProposal; no tool is invoked, no history record is
\* added and no continuation request is sent.
C1_MalformedNeverDispatched ==
    [][(ReplyStep /\ IsMalformed(response_text')) => FailsUndispatched(MalformedProposal)]_vars

\* C1 witness: execute() has failed on a reply that has braces around text
\* that is no JSON, after an earlier step of the same command was executed
C1_Witness ==
    /\ pc = "idle"
    /\ status = "raised"
    /\ error = ErrInvalidJson
    /\ LastN(trace, 2) = <<"propose_reply", "raise">>
    /\ Opens(response_text) # {}
    /\ IsMalformed(response_text)
    /\ Len(dispatched) = 1
    /\ Len(requests) = 3

C3_ShapeRejected ==
    [][(/\ ReplyStep
        /\ ~IsMalformed(response_text')
        /\ \/ "tool" \notin DOMAIN ProposalOf(response_text')
           \/ "args" \notin DOMAIN ProposalOf(response_text')
           \/ ProposalOf(response_text')["args"].ty # "obj")
       => FailsUndispatched(InvalidProposal)]_vars

\* the reply holds DONE in some letter case
LetterIn(tok, cs) == tok.t = "ch" /\ tok.v[1] \in cs
SaysDone(text) ==
    \E i \in 1..(Len(text) - 3) :
        /\ LetterIn(text[i], {"D", "d"})
        /\ LetterIn(text[i + 1], {"O", "o"})
        /\ LetterIn(text[i + 2], {"N", "n"})
        /\ LetterIn(text[i + 3], {"E", "e"})

\* C4: when the reply to the continuation check holds DONE in any letter
\* case, execute() returns the result text of the last executed action, and
\* the continuation request stays the last request of the call.
C4_DoneReturnsLastResult ==
    SaysDone(next_response) =>
        /\ pc = "idle"
        /\ lastCall = "execute"
        /\ status = "returned"
        /\ retval = result
        /\ Last(trace) = "return"
        /\ requests[Len(requests)].kind = "continue"
        /\ Len(requests) = 2 * Len(dispatched)

\* C4 witness: "Go to example.org", the proposal navigate example.org, the
\* result "Navigated to https://example.org/", a reply that says DONE
C4_Witness ==
    /\ command = N("Go to example.org")
    /\ proposals = <<NavExample>>
    /\ SaysDone(next_response)
    /\ status = "returned"
    /\ retval = <<"Navigated to ", "https://", "example.org", "/">>

IsPrefix(a, b) == Len(a) <= Len(b) /\ SubSeq(b, 1, Len(a)) = a

\* C5: the next proposal request is made for the same command and with the
\* growing conversation: the messages of every request of a top-level
\* execute() start with the messages of each earlier request of that call.
C5_ConversationGrows ==
    /\ \A j \in 1..Len(requests) :
          requests[j].kind = "propose" =>
              LastN(requests[j].msgs[Len(requests[j].msgs)].content, Len(command)) = command
    /\ \A i, j \in 1..Len(requests) :
          i < j => IsPrefix(requests[i].msgs, requests[j].msgs)

\* C6: if a dispatched action fails, execute() ends with that error as it
\* is; the action is not dispatched again, no other action is dispatched and
\* no stabilize wait or continuation request follows.
C6_ToolFailureEndsCall ==
    toolErr # NoErr =>
        /\ pc = "idle"
        /\ lastCall = "execute"
        /\ status = "raised"
        /\ error = toolErr
        /\ LastN(trace, 3) = <<"dispatch", "tool_raise", "raise">>
        /\ Count(trace, "dispatch") = Len(dispatched)
        /\ requests[Len(requests)].kind = "propose"
        /\ Len(requests) = 2 * Len(dispatched) - 1

\* C6 witness: the second action of a command has failed
C6_Witness ==
    /\ toolErr = ErrTimeout
    /\ status = "raised"
    /\ Len(dispatched) = 2

\* C7: the stabilize wait is best-effort: when it times out execute() does
\* not fail and goes on to the continuation check.
C7_StabilizeBestEffort ==
    \A i \in 1..Len(trace) :
        trace[i] = "stabilize_timeout" =>
            /\ status # "raised"
            /\ i < Len(trace)
            /\ trace[i + 1] = "continue_req"

\* the events of a trace up to its i-th
Upto(tr, i) == SubSeq(tr, 1, i)

\* C8: within one execute() call the k-th dispatched action is the one of
\* the k-th proposal reply, the stabilize wait of the k-th action has ended
\* before the (k+1)-th proposal request is sent, and at most one action or
\* completion request is outstanding.
C8_OrderedOneAtATime ==
    /\ inflight <= 1
    /\ Len(dispatched) <= Len(proposals)
    /\ Len(proposals) <= Len(dispatched) + 1
    /\ \A k \in 1..Len(dispatched) :
          /\ ~IsMalformed(proposals[k])
          /\ dispatched[k].tool = ProposalOf(proposals[k])["tool"].s
          /\ dispatched[k].kw = ProposalOf(proposals[k])["args"].o
    /\ \A i \in 1..Len(trace) :
          trace[i] = "propose_req" =>
              /\ Count(Upto(trace, i), "dispatch") = Count(Upto(trace, i), "propose_req") - 1
              /\ Count(Upto(trace, i), "stabilize_ok") = Count(Upto(trace, i), "dispatch")
              /\ Count(Upto(trace, i), "tool_ok") = Count(Upto(trace, i), "dispatch")

\* C8 witness: the second proposal of a command, another action than the
\* first, has been dispatched and its stabilize wait has ended
C8_Witness ==
    /\ pc = "continue"
    /\ Len(dispatched) = 2
    /\ dispatched[1].tool = N("click")
    /\ dispatched[2].tool = N("get_text")

\* this step takes a reply to the continuation check that does not say DONE
ContinueStepNotDone ==
    /\ pc = "continue"
    /\ Len(trace') > Len(trace)
    /\ trace'[Len(trace) + 1] = "continue_reply"
    /\ ~SaysDone(next_response')

InExecute == pc \in {"propose", "tool", "stabilize", "continue"}

Range(seq) == {seq[i] : i \in 1..Len(seq)}

\* C10: a failed completion request is not retried and its error reaches
\* the caller as it is: after a failed proposal request no action is
\* dispatched, after a failed continuation request execute() fails with the
\* action performed, and the failed request is the last one of the call.
C10_ProviderFailurePropagates ==
    /\ "propose_fail" \in Range(trace) =>
          /\ LastN(trace, 3) = <<"propose_req", "propose_fail", "raise">>
          /\ pc = "idle"
          /\ lastCall = "execute"
          /\ status = "raised"
          /\ error = ErrProvider
          /\ requests[Len(requests)].kind = "propose"
          /\ Len(requests) = 2 * Len(dispatched) + 1
          /\ Count(trace, "dispatch") = Count(trace, "propose_req") - 1
    /\ "continue_fail" \in Range(trace) =>
          /\ LastN(trace, 3) = <<"continue_req", "continue_fail", "raise">>
          /\ pc = "idle"
          /\ lastCall = "execute"
          /\ status = "raised"
          /\ error = ErrProvider
          /\ requests[Len(requests)].kind = "continue"
          /\ Len(requests) = 2 * Len(dispatched)
          /\ Count(trace, "tool_ok") = Len(dispatched)

\* C10 witness: the continuation request has failed after the action was
\* performed and recorded
C10_Witness ==
    /\ LastN(trace, 2) = <<"continue_fail", "raise">>
    /\ status = "raised"
    /\ error = ErrProvider
    /\ Len(action_history) = 1
    /\ Len(dispatched) = 1

\* ------------------------------------------------------------ tool methods
EvAt(ev, op) == {i \in 1..Len(ev) : ev[i].op = op}
Min(S) == CHOOSE i \in S : \A j \in S : i <= j

\* C11: every tool method (navigate, click, type, get_text, find_element)
\* that returns has appended exactly one record to the action history during
\* the call, and one that raises has appended none.
C11_OneRecordPerSuccess ==
    lastTool.op # "none" =>
        IF lastTool.out.ok
        THEN /\ Len(action_history) = Len(lastTool.hist0) + 1
             /\ SubSeq(action_history, 1, Len(lastTool.hist0)) = lastTool.hist0
        ELSE action_history = lastTool.hist0

\* the first attempt of the navigate() called last failed: goto raised, the
\* wait after no response timed out, or the URL read back was empty or
\* about:blank
FirstAttemptFailed ==
    \/ lastTool.page0.closed
    \/ lastTool.out.env.first = "raise"
    \/ lastTool.out.env.altwait = "timeout"
    \/ lastTool.out.env.read # "url"

\* the recovery of the navigate() called last failed: no fresh page, or the
\* goto on it raised
RecoveryFailed ==
    \/ lastTool.out.env.newpage = "raise"
    \/ lastTool.out.env.retry = "raise"
    \/ browser # "open"

\* C12: when the first attempt of navigate fails, the current page is closed
\* once, at most one fresh page is opened, it becomes the active page and one
\* goto is made on it; when the recovery fails too, navigate raises one error
\* whose text holds the text of the first error and of the retry error; no
\* navigate makes a third goto.
C12_OneRecovery ==
    lastTool.op = "navigate" =>
        LET ev == lastTool.out.ev
            p0 == lastTool.page0
            u == ev[1].arg
            onFresh == {i \in EvAt(ev, "goto") : ev[i].page # p0.id}
        IN /\ Cardinality(EvAt(ev, "goto")) <= 2
           /\ ~FirstAttemptFailed =>
                 (EvAt(ev, "close") = {} /\ EvAt(ev, "new_page") = {} /\ onFresh = {})
           /\ FirstAttemptFailed =>
                 /\ Cardinality(EvAt(ev, "close")) = 1
                 /\ \A i \in EvAt(ev, "close") : ev[i].page = p0.id
                 /\ Cardinality(EvAt(ev, "new_page")) <= 1
                 /\ Cardinality(onFresh) = Cardinality(EvAt(ev, "new_page"))
                 /\ \A i \in onFresh : ev[i].page = page.id /\ ev[i].arg = u /\ ~page.closed
                 /\ EvAt(ev, "new_page") # {} => page.id = p0.id + 1
                 /\ RecoveryFailed <=> status = "raised"
                 /\ status = "raised" =>
                       \E e \in {ErrTimeout, ErrTargetClosed, ErrBlank},
                          r \in {ErrTimeout, ErrTargetClosed} :
                           /\ error.type = "Exception"
                           /\ error.msg = N("Error navigating to ") \o u \o N(": ") \o e.msg
                                          \o N("\nRetry also failed: ") \o r.msg
                           /\ e = ErrBlank <=> (/\ lastTool.out.env.first # "raise"
                                                /\ lastTool.out.env.altwait = "ok"
                                                /\ ~p0.closed)
                           /\ r = ErrTimeout <=> EvAt(ev, "new_page") # {}

\* a navigate whose first attempt and whose one recovery attempt both failed
C12_Witness ==
    /\ lastTool.op = "navigate"
    /\ FirstAttemptFailed
    /\ status = "raised"
    /\ Cardinality(EvAt(lastTool.out.ev, "goto")) = 2
    /\ page.id = lastTool.page0.id + 1

\* C13: navigate requests its argument unchanged when it starts with http://
\* or https://, and with https:// before it otherwise; normalising the
\* requested URL again changes nothing, and the requested URL has a scheme.
C13_SchemeNormalized ==
    lastTool.op = "navigate" =>
        LET url == lastTool.args.url
            ev == lastTool.out.ev
        IN /\ EvAt(ev, "goto") # {}
           /\ \A i \in EvAt(ev, "goto") :
                 /\ (Len(url) > 0 /\ url[1] \in {"http://", "https://"}) => ev[i].arg = url
                 /\ ~(Len(url) > 0 /\ url[1] \in {"http://", "https://"})
                       => ev[i].arg = <<"https://">> \o url
                 /\ Normalize(ev[i].arg) = ev[i].arg
                 /\ ev[i].arg[1] \in {"http://", "https://"}

\* navigate("example.org") asked for https://example.org, and a navigate of
\* a URL with a scheme asked for that URL
C13_Witness ==
    /\ lastTool.op = "navigate"
    /\ lastTool.args.url = N("example.org")
    /\ lastTool.out.ev[1] = Ev("goto", lastTool.page0.id, <<"https://", "example.org">>)
    /\ status = "returned"

\* C14: whenever navigate returns a result, the URL of the active page is
\* neither empty nor about:blank.
C14_NoBlankSuccess ==
    (lastTool.op = "navigate" /\ status = "returned") =>
        (page.url # <<>> /\ page.url # AboutBlank)

\* C15: get_text on a selector that no element matches returns the text
\* "No element found matching <selector>", raises nothing and adds no record
\* to the action history.
C15_MissingElementText ==
    (/\ lastTool.op = "get_text"
     /\ ~lastTool.page0.closed
     /\ lastTool.out.env.wait = "timeout"
     /\ lastTool.out.env.query = "none") =>
        /\ status = "returned"
        /\ retval = N("No element found matching ") \o lastTool.args.selector
        /\ action_history = lastTool.hist0

\* the description holds search, input or text in any case
SaysSearch(description) ==
    \E i \in 1..Len(description) :
        description[i] \in {"search", "Search", "input", "INPUT", "text", "Text"}

\* C16: find_element takes the search candidates when the description holds
\* search, input or text in any case and the button candidates otherwise,
\* tries them in their declared order and returns the first one that is
\* attached, visible and enabled, skipping the others; it raises
\* ElementNotFound when no candidate is.
C16_FirstReadyCandidate ==
    lastTool.op = "find_element" =>
        LET cands == IF SaysSearch(lastTool.args.description)
                     THEN SearchSelectors ELSE ButtonSelectors
            ready == {i \in 1..Len(cands) :
                         /\ ~lastTool.page0.closed
                         /\ i <= MaxCandidate
                         /\ lastTool.out.env.status[i] = "ready"}
            ev == lastTool.out.ev
        IN /\ \A k \in 1..Len(ev) : ev[k].op = "wait" /\ ev[k].arg = N(cands[k])
           /\ IF ready = {}
              THEN /\ status = "raised"
                   /\ error = ErrNotFound
                   /\ Len(ev) = Len(cands)
              ELSE /\ status = "returned"
                   /\ retval = N(cands[Min(ready)])
                   /\ Len(ev) = Min(ready)

\* find_element("Search box") on a page where only the third search
\* candidate is ready returned that third selector
C16_Witness ==
    /\ lastTool.op = "find_element"
    /\ lastTool.args.description = <<"Search", " box">>
    /\ lastTool.out.env.status[1] = "missing"
    /\ lastTool.out.env.status[2] = "hidden"
    /\ lastTool.out.env.status[3] = "ready"
    /\ retval = N("[data-testid='searchbox_input']")

\* the clicks of the type() called last on its fallback buttons
ButtonClicks ==
    LET ev == lastTool.out.ev
    IN [k \in 1..(Len(ev) - 6) |-> ev[k + 6].arg]

\* C17: once type has resolved the field, cleared it, typed and sent Enter,
\* it returns "Typed '<text>' into <selector> and submitted" and adds one
\* record, whatever the load wait and the fallback buttons did; the buttons
\* are tried only when the URL after Enter is still the unsubmitted one, in
\* their ranked order, and at most one is clicked.
C17_TypeAndSubmit ==
    (lastTool.op = "type" /\ ~lastTool.page0.closed /\ lastTool.out.env.field = "visible") =>
        LET env == lastTool.out.env
        IN /\ status = "returned"
           /\ retval = N("Typed '") \o lastTool.args.text \o N("' into ")
                       \o lastTool.args.selector \o N(" and submitted")
           /\ action_history = Append(lastTool.hist0,
                  [action |-> "type", selector |-> lastTool.args.selector,
                   text |-> lastTool.args.text])
           /\ Len(ButtonClicks) <= 1
           /\ ButtonClicks # <<>> =>
                 /\ env.load = "ok"
                 /\ env.enter = "stay"
                 /\ "google.com" \in Range(lastTool.page0.url)
                 /\ "/search" \notin Range(lastTool.page0.url)
                 /\ \E i \in 1..Len(button_selectors) :
                       /\ ButtonClicks[1] = N(button_selectors[i])
                       /\ env.buttons[i] # "absent"
                       /\ \A j \in 1..(i - 1) : env.buttons[j] = "absent"

\* ----------------------------------------------------------------- session
\* C18: a close() called before setup() has completed (never called, in
\* progress after the browser process was spawned, or failed) does not raise
\* and leaves no spawned browser process running.
C18_EarlyCloseSafe ==
    [][(Close /\ ~llm) => (status' = "returned" /\ chrome_process' # "running")]_vars

\* C19: close() attempts every release (browser, driver, spawned process)
\* even when an earlier one fails: after close() the browser is not open, the
\* driver not running and the spawned process terminated.
C19_AllReleasesAttempted ==
    [][Close => (/\ browser' # "open"
                 /\ playwright' # "started"
                 /\ chrome_process' # "running")]_vars

\* C20: setup() makes at most max_retries (3) attach attempts, sleeps the
\* same retry_delay between two attempts, stops and is ready at the first
\* attempt that succeeds, and after the last failed attempt raises with no
\* further sleep or attempt.
C20_BoundedAttach ==
    /\ max_retries = 3
    /\ [](attempt \in 0..(max_retries - 1))
    /\ [](pc \in {"attach", "retry_sleep"} => slept = retry_delay * attempt)
    /\ [](pc = "retry_sleep" => attempt < max_retries - 1)
    /\ [][Attach =>
            \/ /\ pc' = "idle"
               /\ lastCall' = "setup"
               /\ status' = "returned"
               /\ llm'
               /\ browser' = "open"
               /\ ~page'.closed
            \/ /\ pc' = "retry_sleep"
               /\ attempt < max_retries - 1
               /\ UNCHANGED <<llm, outVars>>
            \/ /\ pc' = "idle"
               /\ attempt = max_retries - 1
               /\ lastCall' = "setup"
               /\ status' = "raised"
               /\ ~llm'
               /\ chrome_process' = "killed"]_vars
    /\ [][RetrySleep => (pc' = "attach" /\ attempt' = attempt + 1)]_vars

\* the third attempt has failed and setup() has raised
C20_Witness ==
    /\ pc = "idle"
    /\ lastCall = "setup"
    /\ status = "raised"
    /\ error = ErrConnect
    /\ chrome_process = "killed"
    /\ ~llm

\* ------------------------------------------------------------------ history
\* C21: the action history is append-only for the lifetime of the agent: no
\* step (execute, a failing action, navigate's page replacement, close)
\* removes or changes a record; a record is added only by the tool call that
\* has just run, at the end, and carries that tool's name; so the history
\* carries over from one execute() to the next and is still there after a
\* command has failed.
C21_HistoryAppendOnly ==
    /\ [][IsPrefix(action_history, action_history')]_vars
    /\ [][action_history' # action_history =>
            /\ pc = "tool"
            /\ Len(action_history') = Len(action_history) + 1
            /\ N(Last(action_history').action) = CallOf(action).tool]_vars

\* a command has failed in its one tool call and the record of an earlier
\* execute() is still in the history
C21_Witness ==
    /\ lastCall = "execute"
    /\ status = "raised"
    /\ toolErr # NoErr
    /\ Len(dispatched) = 1
    /\ Len(action_history) = 1

\* ----------------------------------------------------------------- navigate
\* the waits of the navigate() called last that timed out
TimedOutWaits ==
    {w \in {"altwait", "dom", "idle"} : lastTool.out.env[w] = "timeout"}

\* C22: a timeout of a content-loaded or network-idle wait of navigate's
\* first attempt, on each of its paths, neither fails navigate nor starts
\* the recovery with a fresh page, and the URL of the page is still read
\* back.
C22_WaitTimeoutNonFatal ==
    (/\ lastTool.op = "navigate"
     /\ ~lastTool.page0.closed
     /\ lastTool.out.env.first # "raise"
     /\ TimedOutWaits # {}) =>
        LET ev == lastTool.out.ev
        IN /\ EvAt(ev, "url") # {}
           /\ lastTool.out.env.read = "url" =>
                 /\ status = "returned"
                 /\ EvAt(ev, "close") = {}
                 /\ EvAt(ev, "new_page") = {}

\* -------------------------------------------------------------------- setup
\* C23: only the attachment to the browser is retried: when the attachment
\* has succeeded and the completion client cannot be built for the
\* configured provider, setup() fails at once, with no sleep and no further
\* attach attempt.
C23_OnlyAttachRetried ==
    [][(Attach /\ browser' = "open" /\ page' # page /\ ~InitLlmOk(provider)) =>
          (/\ pc' = "idle"
           /\ lastCall' = "setup"
           /\ status' = "raised"
           /\ error' = ErrUnsupported)]_vars

\* C24: execute() with no completion client set (setup() never called, or
\* failed) raises at once: no completion request is sent, no action
\* dispatched, and the action history and the page stay as they are.
C24_NotReadyRejected ==
    [][((\E cmd \in Commands : Execute(cmd)) /\ ~llm) =>
          (/\ pc' = "idle"
           /\ lastCall' = "execute"
           /\ status' = "raised"
           /\ error' = ErrNotInitialized
           /\ requests' = <<>>
           /\ dispatched' = <<>>
           /\ inflight' = inflight
           /\ UNCHANGED <<action_history, page>>)]_vars

\* execute() was rejected on an agent whose setup() was never called
C24_Witness ==
    /\ lastCall = "execute"
    /\ status = "raised"
    /\ error = ErrNotInitialized
    /\ playwright = "none"
    /\ requests = <<>>

\* C25: after close() the session is closed for good: an execute() called
\* then sends no completion request, and no action is dispatched on the
\* released page.
C25_ClosedForGood ==
    /\ [][((\E cmd \in Commands : Execute(cmd)) /\ browser = "closed") =>
            (status' = "raised" /\ requests' = <<>>)]_vars
    /\ [][browser = "closed" => dispatched' = <<>>]_vars

\* ------------------------------------------------------------------ dispatch
\* the reply holds an action that passes extraction, validation and binding
Dispatchable(text) ==
    /\ Extract(text).err = NoErr
    /\ Validate(Extract(text).action) = NoErr
    /\ Bind(Extract(text).action) = NoErr

\* C26: an action is dispatched only from the reply to a proposal request,
\* one action for each such reply that holds one; the reply to a
\* continuation check only decides between returning and going on, and an
\* action JSON in it is not dispatched: a new proposal request is made.
C26_DispatchOnlyFromProposal ==
    /\ [](Len(dispatched) = Cardinality({i \in 1..Len(proposals) : Dispatchable(proposals[i])}))
    /\ [][(dispatched' # dispatched /\ dispatched' # <<>>) =>
            /\ pc = "propose"
            /\ proposals' = Append(proposals, response_text')
            /\ dispatched' = Append(dispatched, CallOf(Extract(response_text').action))]_vars
    /\ [][(\E text \in ContinuationReplies : ContinueReply(text)) =>
            /\ dispatched' = dispatched
            /\ IF HasDone(next_response')
               THEN status' = "returned" /\ retval' = result
               ELSE /\ pc' = "propose"
                    /\ Len(requests') = Len(requests) + 1
                    /\ Last(requests').kind = "propose"]_vars

\* a continuation reply that is no DONE and holds an action JSON was
\* answered with a new proposal request, and the one action dispatched so
\* far is the one of the proposal reply
C26_Witness ==
    /\ pc = "propose"
    /\ next_response = Word(<<"D", "O", "x", "N", "E">>) \o ClickQ
    /\ Dispatchable(next_response)
    /\ Len(requests) = 3
    /\ Len(dispatched) = 1
    /\ dispatched[1].tool = N("navigate")

\* C27: whenever setup() raises, a browser process it spawned has been
\* killed and the completion client is unset, so an execute() that follows
\* is rejected; the completion client is set only by the attach attempt that
\* succeeds, as the step that ends setup().
C27_FailedSetupNotReady ==
    /\ [][(lastCall' = "setup" /\ status' = "raised") =>
            (~llm' /\ chrome_process' # "running")]_vars
    /\ [][((\E cmd \in Commands : Execute(cmd)) /\ lastCall = "setup" /\ status = "raised") =>
            (status' = "raised" /\ error' = ErrNotInitialized /\ requests' = <<>>)]_vars
    /\ [][(llm' # llm) =>
            (/\ Attach
             /\ llm'
             /\ pc' = "idle"
             /\ lastCall' = "setup"
             /\ status' = "returned"
             /\ browser' = "open"
             /\ ~page'.closed)]_vars

\* setup() raised after its last attach attempt, the spawned process is
\* killed, and the execute() that followed was rejected
C27_Witness ==
    /\ lastCall = "execute"
    /\ status = "raised"
    /\ error = ErrNotInitialized
    /\ chrome_process = "killed"
    /\ browser = "none"
    /\ playwright = "started"
    /\ ~llm

====
